---- MODULE Spec2Model ----
(***************************************************************************)
(* Decision engine of futuur-scanner: Kelly sizing (strategy.py), the      *)
(* model-backed probability estimator with its rate-limit guard            *)
(* (gpt_client.py) and the analysis session of the web layer (web_app.py). *)
(*                                                                         *)
(* Numbers.  Prices and probabilities are Python floats in the source.     *)
(* Here they are exact fixed-point integers counted in 1/Unit (Unit =      *)
(* 10000, so 0.02 is 200 and 0.0001 is 1).  Every input is a multiple of   *)
(* 0.01, which keeps 0.5*(s-0.5) and 0.3*(s-0.5) exact.  A Kelly fraction  *)
(* is a quotient and is kept as an exact pair <<numerator, denominator>>   *)
(* with denominator > 0; <<0, 0>> stands for a raised ZeroDivisionError.   *)
(* Times are whole seconds.                                                *)
(***************************************************************************)
EXTENDS Integers, Sequences, FiniteSets, TLC

VARIABLES
    pc,                 \* "ready" before a function under test ran, "done" after
    kin,                \* arguments (p, s) handed to the Kelly sizer
    kout,               \* what _kelly_yes / _kelly_no returned for kin
    markets,            \* argument list of build_recommendations
    risk_mode,          \* argument risk_mode of build_recommendations
    recs,               \* list returned by build_recommendations
    session,            \* session["analysis_markets"]
    analysis_rows,      \* rows computed by the /analysis view
    now,                \* time.time()
    RATE_LIMITED_UNTIL, \* gpt_client.RATE_LIMITED_UNTIL
    client,             \* gpt_client.client: "ok" or "none"
    lastCall,           \* observation of the last get_p_from_gpt call
    threads,            \* threads inside get_p_from_gpt: position and locals
    pre_p,              \* what _compute_pre_p returned for markets[1]
    raw_bet,            \* raw bet record handed to _map_bet
    bet_row,            \* BetRow returned by _map_bet
    args,               \* request.args of the portfolio view: pmap and p_<bet_id>
    calc,               \* what _calc_open_bets returned for the mapped bet
    orders,             \* list_open_limit_orders: next endpoint and errors so far
    open_orders,        \* what list_open_limit_orders returned: rows and error
    cash,               \* cash of the portfolio view, whole currency units
    totals,             \* the totals the portfolio view computed
    startup             \* an entry point starting up: its environment and progress

vars == <<pc, kin, kout, markets, risk_mode, recs, session, analysis_rows,
          now, RATE_LIMITED_UNTIL, client, lastCall, threads, pre_p,
          raw_bet, bet_row, args, calc, orders, open_orders, cash, totals,
          startup>>

----------------------------------------------------------------------------
(* Fixed-point scale and input grids *)

Unit == 100 * 100

Cent == Unit \div 100

\* bounds of the input grids
MaxTick == 44
MaxPriceTick == 22

\* p and s for the sizer alone: -0.05, -0.025 .. 1.05 in steps of 0.025
\* (kept to multiples of 0.005 so that every value is a whole number of units)
KellyGrid == { (5 * Cent * (k - 2)) \div 2 : k \in 0..MaxTick }

\* market prices: -0.05, 0.00, 0.05 .. 1.05, and two prices close to even
\* whose heuristic edge is below the edge threshold
Prices == { 5 * Cent * (k - 1) : k \in 0..MaxPriceTick } \cup {48 * Cent, 52 * Cent}

None == "None"

----------------------------------------------------------------------------
(* Exact quotients *)

Zero == <<0, 1>>

ZeroDivisionError == <<0, 0>>

Div(a, b) ==
    IF b = 0 THEN ZeroDivisionError
    ELSE IF b < 0 THEN <<0 - a, 0 - b>> ELSE <<a, b>>

Raised(f) == f[2] = 0

IsZero(f) == f[2] # 0 /\ f[1] = 0

IsPos(f) == f[2] > 0 /\ f[1] > 0

IsNeg(f) == f[2] > 0 /\ f[1] < 0

\* f >= g, f = g and f > g for two quotients with positive denominators
Geq(f, g) == f[1] * g[2] >= g[1] * f[2]

Eq(f, g) == f[1] * g[2] = g[1] * f[2]

Gt(f, g) == f[1] * g[2] > g[1] * f[2]

\* f * (a / b)
Times(f, a, b) == IF Raised(f) THEN f ELSE <<f[1] * a, f[2] * b>>

Abs(x) == IF x < 0 THEN 0 - x ELSE x

Max(a, b) == IF a >= b THEN a ELSE b

Min(a, b) == IF a <= b THEN a ELSE b

----------------------------------------------------------------------------
(* strategy.py: the Kelly sizer *)

_kelly_yes_inverted(p, s) ==
    IF p <= s \/ s >= Unit THEN Zero ELSE Div(Unit - p, Unit - s)

_kelly_yes(p, s) ==
    IF p <= s \/ s >= Unit THEN Zero ELSE Div(p - s, Unit - s)

_kelly_no_unsigned(p, s) ==
    IF s <= 0 THEN Zero ELSE Div(s - p, s)

_kelly_no(p, s) ==
    IF p >= s \/ s <= 0 THEN Zero ELSE Div(s - p, s)

----------------------------------------------------------------------------
(* strategy.py: heuristic estimate and recommendations *)

EDGE_THRESHOLD == 2 * Cent

\* config.py: DEFAULT_RISK_MODE when the environment does not set it
DEFAULT_RISK_MODE == "half"

\* v.startswith("full") / v.startswith("half") after lower-casing, over the
\* risk-mode strings the model passes in
StartsWithFull == {"full", "Full", "full_kelly"}

StartsWithHalf == {"half", "Half"}

RiskModes == {None, "Full", "half", "turbo"}

\* the multiplier, as a pair <<numerator, denominator>>
risk_mode_from_string_lenient(value) ==
    LET v == IF value # None /\ value # "" THEN value ELSE DEFAULT_RISK_MODE
    IN  IF v \in StartsWithHalf THEN <<1, 2>> ELSE <<1, 1>>

risk_mode_from_string(value) ==
    LET v == IF value # None /\ value # "" THEN value ELSE DEFAULT_RISK_MODE
    IN  IF v \in StartsWithFull THEN <<1, 1>>
        ELSE IF v \in StartsWithHalf THEN <<1, 2>>
        ELSE <<1, 2>>

\* A domain string is modelled by the set of the keywords it contains:
\* "Finance" is {"finance"}, "Other" is {}, "Finance / Politics" has both.
Keywords == {"finance", "science", "sports", "entertainment", "politics"}

_compute_pre_p_domain_first(domain, s0) ==
    LET s == Max(1, Min(Unit - 1, s0))
    IN  IF domain \cap {"finance", "science"} # {}
           /\ domain \cap {"sports", "entertainment", "politics"} = {}
        THEN 50 * Cent + (s - 50 * Cent) \div 2
        ELSE IF s <= 10 * Cent THEN 4 * Cent
        ELSE IF s >= 90 * Cent THEN 90 * Cent
        ELSE LET p_raw == 50 * Cent + (3 * (s - 50 * Cent)) \div 10
                 p_adj == IF s > 65 * Cent THEN p_raw - 10 * Cent
                          ELSE IF s < 35 * Cent THEN p_raw + 10 * Cent
                          ELSE p_raw
             IN  Max(Cent, Min(99 * Cent, p_adj))

_compute_pre_p(domain, s0) ==
    LET s == Max(1, Min(Unit - 1, s0))
    IN  IF s <= 10 * Cent THEN 4 * Cent
        ELSE IF s >= 90 * Cent THEN 90 * Cent
        ELSE IF domain \cap {"finance", "science"} # {}
                /\ domain \cap {"sports", "entertainment", "politics"} = {}
             THEN 50 * Cent + (s - 50 * Cent) \div 2
        ELSE LET p_raw == 50 * Cent + (3 * (s - 50 * Cent)) \div 10
                 p_adj == IF s > 65 * Cent THEN p_raw - 10 * Cent
                          ELSE IF s < 35 * Cent THEN p_raw + 10 * Cent
                          ELSE p_raw
             IN  Max(Cent, Min(99 * Cent, p_adj))

\* lines 115-116: tiny edges are not sized
EdgeFilter_off(best_edge, full_kelly) == full_kelly

EdgeFilter(best_edge, full_kelly) ==
    IF Abs(best_edge) < EDGE_THRESHOLD THEN Zero ELSE full_kelly

\* models.py: the Recommendation dataclass, as constructed at lines 129-141
Recommendation_limit_p0(market, side, s, p0, edge0, kelly_full, kelly_half, limit, notes) ==
    [market |-> market, side |-> side, s |-> s, p0 |-> p0, edge0 |-> edge0,
     kelly_full |-> kelly_full, kelly_half |-> kelly_half, limit |-> p0,
     notes |-> notes]

Recommendation(market, side, s, p0, edge0, kelly_full, kelly_half, limit, notes) ==
    [market |-> market, side |-> side, s |-> s, p0 |-> p0, edge0 |-> edge0,
     kelly_full |-> kelly_full, kelly_half |-> kelly_half, limit |-> limit,
     notes |-> notes]

RecommendationFor_yes_edge(m, risk_fraction) ==
    LET s == m.s
        p0 == _compute_pre_p(m.domain, s)
        edge_yes == p0 - s
        f_yes == _kelly_yes(p0, s)
        f_no == _kelly_no(p0, s)
        unsized == f_yes[1] <= 0 /\ f_no[1] <= 0
        side == IF unsized \/ Geq(f_yes, f_no) THEN "yes" ELSE "no"
        raw_kelly == IF unsized THEN Zero
                     ELSE IF side = "yes" THEN f_yes ELSE f_no
        full_kelly == EdgeFilter(edge_yes, raw_kelly)
        half_kelly == Times(full_kelly, 1, 2)
        notes == IF s <= 10 * Cent THEN "Longshot fade baseline"
                 ELSE IF s >= 90 * Cent THEN "Crowded favorite; trimmed p"
                 ELSE ""
    IN  Recommendation(m, side, s, p0, edge_yes,
                       Times(full_kelly, risk_fraction[1], risk_fraction[2]),
                       Times(half_kelly, risk_fraction[1], risk_fraction[2]),
                       s, notes)

\* the body of the loop of build_recommendations for one market with 0 < s < 1
RecommendationFor_smaller_side(m, risk_fraction) ==
    LET s == m.s
        p0 == _compute_pre_p(m.domain, s)
        edge_yes == p0 - s
        edge_no == s - p0
        f_yes == _kelly_yes(p0, s)
        f_no == _kelly_no(p0, s)
        unsized == f_yes[1] <= 0 /\ f_no[1] <= 0
        side == IF unsized
                THEN (IF Abs(edge_yes) >= Abs(edge_no) THEN "yes" ELSE "no")
                ELSE (IF Geq(f_yes, f_no) THEN "no" ELSE "yes")
        best_edge == IF side = "yes" THEN edge_yes ELSE edge_no
        raw_kelly == IF unsized THEN Zero
                     ELSE IF side = "yes" THEN f_yes ELSE f_no
        full_kelly == EdgeFilter(best_edge, raw_kelly)
        half_kelly == Times(full_kelly, 1, 2)
        notes == IF s <= 10 * Cent THEN "Longshot fade baseline"
                 ELSE IF s >= 90 * Cent THEN "Crowded favorite; trimmed p"
                 ELSE ""
    IN  Recommendation(m, side, s, p0, best_edge,
                       Times(full_kelly, risk_fraction[1], risk_fraction[2]),
                       Times(half_kelly, risk_fraction[1], risk_fraction[2]),
                       s, notes)

RecommendationFor(m, risk_fraction) ==
    LET s == m.s
        p0 == _compute_pre_p(m.domain, s)
        edge_yes == p0 - s
        edge_no == s - p0
        f_yes == _kelly_yes(p0, s)
        f_no == _kelly_no(p0, s)
        unsized == f_yes[1] <= 0 /\ f_no[1] <= 0
        side == IF unsized
                THEN (IF Abs(edge_yes) >= Abs(edge_no) THEN "yes" ELSE "no")
                ELSE (IF Geq(f_yes, f_no) THEN "yes" ELSE "no")
        best_edge == IF side = "yes" THEN edge_yes ELSE edge_no
        raw_kelly == IF unsized THEN Zero
                     ELSE IF side = "yes" THEN f_yes ELSE f_no
        full_kelly == EdgeFilter(best_edge, raw_kelly)
        half_kelly == Times(full_kelly, 1, 2)
        notes == IF s <= 10 * Cent THEN "Longshot fade baseline"
                 ELSE IF s >= 90 * Cent THEN "Crowded favorite; trimmed p"
                 ELSE ""
    IN  Recommendation(m, side, s, p0, best_edge,
                       Times(full_kelly, risk_fraction[1], risk_fraction[2]),
                       Times(half_kelly, risk_fraction[1], risk_fraction[2]),
                       s, notes)

\* list.sort(key=abs(edge0), reverse=True): stable, descending
InsertRec(sorted, r) ==
    LET k == Cardinality({i \in 1..Len(sorted) : Abs(sorted[i].edge0) >= Abs(r.edge0)})
    IN  SubSeq(sorted, 1, k) \o <<r>> \o SubSeq(sorted, k + 1, Len(sorted))

SortRecs_unsorted(seq) == seq

RECURSIVE SortRecs(_)
SortRecs(seq) ==
    IF seq = <<>> THEN <<>>
    ELSE InsertRec(SortRecs(SubSeq(seq, 1, Len(seq) - 1)), seq[Len(seq)])

RECURSIVE CollectRecs_noskip(_, _)
CollectRecs_noskip(ms, risk_fraction) ==
    IF ms = <<>> THEN <<>>
    ELSE <<RecommendationFor(Head(ms), risk_fraction)>>
             \o CollectRecs_noskip(Tail(ms), risk_fraction)

RECURSIVE CollectRecs(_, _)
CollectRecs(ms, risk_fraction) ==
    IF ms = <<>> THEN <<>>
    ELSE LET m == Head(ms)
             rest == CollectRecs(Tail(ms), risk_fraction)
         IN  IF m.s <= 0 \/ m.s >= Unit THEN rest
             ELSE <<RecommendationFor(m, risk_fraction)>> \o rest

build_recommendations(ms, mode) ==
    SortRecs(CollectRecs(ms, risk_mode_from_string(mode)))

----------------------------------------------------------------------------
(* gpt_client.py: the model-backed estimator and its rate-limit guard *)

RATE_LIMIT_COOLDOWN_SEC == 60

_clamp_p(x) == Max(0, Min(Unit, x))

\* market.s or 0.5, nudged away from the extremes
_fallback_p(m, explanation) ==
    LET s == IF m.s = 0 THEN 50 * Cent ELSE m.s
        p == IF s >= 90 * Cent THEN s - 5 * Cent
             ELSE IF s <= 10 * Cent THEN s + 5 * Cent
             ELSE s
    IN  [p |-> _clamp_p(p), reason |-> explanation]

\* line 105: time.time() < RATE_LIMITED_UNTIL
StillRateLimited_never(t, until) == FALSE

StillRateLimited_latched(t, until) == until > 0

StillRateLimited(t, until) == t < until

\* What the upstream service does when it is contacted (p and reason are
\* what the JSON answer carries when kind is "ok", and unused otherwise)
UpstreamKinds == {"ok", "api_error", "rate_limit", "not_json", "no_p"}

\* probabilities the model may answer with (0.30, 0.51 and two out of range)
ModelPs == {0 - 20 * Cent, 30 * Cent, 51 * Cent, 150 * Cent}

Upstream ==
    [kind : {"ok"}, p : ModelPs, reason : {"because"}]
    \cup {[kind |-> "ok", p |-> 51 * Cent, reason |-> ""]}
    \cup [kind : UpstreamKinds \ {"ok"}, p : {0}, reason : {""}]

\* One call of get_p_from_gpt entered at time t0 with the module globals
\* (cl, until); the upstream answers up after d seconds when contacted.
\* raised names the exception that leaves the function, or None.
get_p_from_gpt(m, t0, until, cl, up, d) ==
    IF cl = "none"
    THEN _fallback_p(m, "No module named 'openai'")
         @@ [raised |-> None, contacted |-> FALSE, until |-> until, t_end |-> t0]
    ELSE IF StillRateLimited(t0, until)
    THEN _fallback_p(m, "OpenAI rate limit still in effect; using market price")
         @@ [raised |-> None, contacted |-> FALSE, until |-> until, t_end |-> t0]
    ELSE IF up.kind = "api_error"
    THEN _fallback_p(m, "API error: connection failed")
         @@ [raised |-> None, contacted |-> TRUE, until |-> until, t_end |-> t0 + d]
    ELSE IF up.kind = "rate_limit"
    THEN _fallback_p(m, "OpenAI rate limit exceeded; using market price")
         @@ [raised |-> None, contacted |-> TRUE,
             until |-> (t0 + d) + RATE_LIMIT_COOLDOWN_SEC, t_end |-> t0 + d]
    ELSE IF up.kind = "not_json"
    THEN [p |-> None, reason |-> "Failed to parse JSON from model",
          raised |-> "RuntimeError", contacted |-> TRUE, until |-> until,
          t_end |-> t0 + d]
    ELSE IF up.kind = "no_p"
    THEN [p |-> None, reason |-> "Model JSON missing numeric 'p'",
          raised |-> "RuntimeError", contacted |-> TRUE, until |-> until,
          t_end |-> t0 + d]
    ELSE [p |-> _clamp_p(up.p),
          reason |-> IF up.reason = "" THEN "Model did not provide a reason."
                     ELSE up.reason,
          raised |-> None, contacted |-> TRUE, until |-> until, t_end |-> t0 + d]

----------------------------------------------------------------------------
(* Inputs *)

MaxMarkets == 2
MaxTime == 150
TickSec == 30
NumThreads == 2

RecDomains == {{"finance"}, {"politics"}}

Markets == [domain : RecDomains, s : Prices]

MarketLists == UNION { [1..n -> Markets] : n \in 0..MaxMarkets }

NoKellyOut == [yes |-> Zero, no |-> Zero]

\* values of the portfolio variables while no bet has been mapped
NoBet == [position |-> "l", price |-> <<>>, active_purchases |-> <<>>,
          status_label |-> "open"]

NoRow == [position |-> "l", status |-> "open", shares |-> 0,
          amount_invested |-> 0, avg_price |-> Zero, mark_price |-> 0,
          mark_value |-> 0, unrealized_pnl |-> 0]

NoArgs == [pmap |-> <<>>, legacy |-> <<>>]

NoCalc == [rows |-> <<>>, mv_port |-> 0, ev_port |-> 0, total_unrealized |-> 0]

\* list_open_limit_orders before its first call_api, and before it returned
NoOrders == [next |-> 1, errors |-> <<>>]

NoData == [kind |-> "none", total |-> <<>>, results |-> <<>>]

\* err is <<>> for None and the errors joined into the message otherwise;
\* endpoint and data record which call_api answer the rows were mapped from
NotReturned == [returned |-> FALSE, rows |-> <<>>, err |-> <<>>,
                endpoint |-> 0, data |-> NoData]

NoTotals == [mv_total |-> 0, ev_total |-> 0, reserved_notional |-> 0,
             total_exposure |-> 0]

\* no entry point is being started
NoStartup ==
    [entry |-> "none", pub |-> "unset", priv |-> "unset",
     has_validate |-> FALSE, pc |-> "start", FUTUUR_PUBLIC_KEY |-> "",
     FUTUUR_PRIVATE_KEY |-> "", error |-> <<>>, logged |-> <<>>, served |-> 0]

----------------------------------------------------------------------------
(* SpecKelly: the sizer applied to every (p, s) of the grid *)

InitKelly ==
    /\ pc = "ready"
    /\ kin \in [p : KellyGrid, s : KellyGrid]
    /\ kout = NoKellyOut
    /\ markets = <<>>
    /\ risk_mode = None
    /\ recs = <<>>
    /\ session = <<>>
    /\ analysis_rows = <<>>
    /\ now = 1
    /\ RATE_LIMITED_UNTIL = 0
    /\ client = "ok"
    /\ lastCall = <<>>
    /\ threads = <<>>
    /\ pre_p = 0
    /\ raw_bet = NoBet
    /\ bet_row = NoRow
    /\ args = NoArgs
    /\ calc = NoCalc
    /\ orders = NoOrders
    /\ open_orders = NotReturned
    /\ cash = 0
    /\ totals = NoTotals
    /\ startup = NoStartup

KellySize ==
    /\ pc = "ready"
    /\ pc' = "done"
    /\ kout' = [yes |-> _kelly_yes(kin.p, kin.s), no |-> _kelly_no(kin.p, kin.s)]
    /\ UNCHANGED <<threads, pre_p, raw_bet, bet_row, args, calc, orders,
                   open_orders, cash, totals, startup,
                   kin, markets, risk_mode, recs, session, analysis_rows,
                   now, RATE_LIMITED_UNTIL, client, lastCall>>

NextKelly == KellySize

SpecKelly == InitKelly /\ [][NextKelly]_vars

----------------------------------------------------------------------------
(* Spec: build_recommendations on every list of up to MaxMarkets markets *)

Init ==
    /\ pc = "ready"
    /\ kin = [p |-> 0, s |-> 0]
    /\ kout = NoKellyOut
    /\ markets \in MarketLists
    /\ risk_mode \in RiskModes
    /\ recs = <<>>
    /\ session = <<>>
    /\ analysis_rows = <<>>
    /\ now = 1
    /\ RATE_LIMITED_UNTIL = 0
    /\ client = "ok"
    /\ lastCall = <<>>
    /\ threads = <<>>
    /\ pre_p = 0
    /\ raw_bet = NoBet
    /\ bet_row = NoRow
    /\ args = NoArgs
    /\ calc = NoCalc
    /\ orders = NoOrders
    /\ open_orders = NotReturned
    /\ cash = 0
    /\ totals = NoTotals
    /\ startup = NoStartup

BuildRecommendations ==
    /\ pc = "ready"
    /\ pc' = "done"
    /\ recs' = build_recommendations(markets, risk_mode)
    /\ UNCHANGED <<threads, pre_p, raw_bet, bet_row, args, calc, orders,
                   open_orders, cash, totals, startup,
                   kin, kout, markets, risk_mode, session, analysis_rows, now,
                   RATE_LIMITED_UNTIL, client, lastCall>>

Next == BuildRecommendations

Spec == Init /\ [][Next]_vars

----------------------------------------------------------------------------
(* SpecGpt: calls of get_p_from_gpt for one market under a running clock *)

InitGpt ==
    /\ pc = "ready"
    /\ kin = [p |-> 0, s |-> 0]
    /\ kout = NoKellyOut
    /\ markets \in [1..1 -> Markets]
    /\ risk_mode = None
    /\ recs = <<>>
    /\ session = <<>>
    /\ analysis_rows = <<>>
    /\ now = 1
    /\ RATE_LIMITED_UNTIL = 0
    /\ client \in {"ok", "none"}
    /\ lastCall = <<>>
    /\ threads = <<>>
    /\ pre_p = 0
    /\ raw_bet = NoBet
    /\ bet_row = NoRow
    /\ args = NoArgs
    /\ calc = NoCalc
    /\ orders = NoOrders
    /\ open_orders = NotReturned
    /\ cash = 0
    /\ totals = NoTotals
    /\ startup = NoStartup

\* time passes between two calls
Tick ==
    /\ now + TickSec <= MaxTime
    /\ now' = now + TickSec
    /\ UNCHANGED <<threads, pre_p, raw_bet, bet_row, args, calc, orders,
                   open_orders, cash, totals, startup,
                   pc, kin, kout, markets, risk_mode, recs, session,
                   analysis_rows, RATE_LIMITED_UNTIL, client, lastCall>>

\* One call for markets[1]; the upstream answers at once or one tick later.
\* lastCall keeps the arguments, the globals the call saw and its result.
CallGpt ==
    \E up \in Upstream, d \in {0, TickSec} :
        LET res == get_p_from_gpt(markets[1], now, RATE_LIMITED_UNTIL, client, up, d)
        IN  /\ res.t_end <= MaxTime
            /\ lastCall' = <<[m |-> markets[1], t0 |-> now,
                              until_before |-> RATE_LIMITED_UNTIL,
                              up |-> up, res |-> res]>>
            /\ RATE_LIMITED_UNTIL' = res.until
            /\ now' = res.t_end
            /\ UNCHANGED <<threads, pre_p, raw_bet, bet_row, args, calc, orders,
                           open_orders, cash, totals, startup,
                           pc, kin, kout, markets, risk_mode, recs, session,
                           analysis_rows, client>>

NextGpt == Tick \/ CallGpt

SpecGpt == InitGpt /\ [][NextGpt]_vars

\* The same calls under a clock that keeps advancing.  The clock of the model
\* stops at MaxTime, so a call is taken only if the deadline it leaves can
\* still be reached by the clock.
CallGptInHorizon ==
    /\ CallGpt
    /\ RATE_LIMITED_UNTIL' + TickSec <= MaxTime

NextGptLive == Tick \/ CallGptInHorizon

SpecGptLive == InitGpt /\ [][NextGptLive]_vars /\ WF_vars(Tick)

-----------------------------------------------------------------------------
(* _compute_pre_p applied to one market: every single tag, no tag at all and
   one title carrying a fundamentals tag and a narrative tag. *)

PrePDomains == { {k} : k \in Keywords } \cup { {}, {"finance", "politics"} }

InitPreP ==
    /\ pc = "ready"
    /\ kin = [p |-> 0, s |-> 0]
    /\ kout = NoKellyOut
    /\ markets \in [1..1 -> [domain : PrePDomains, s : KellyGrid]]
    /\ risk_mode = None
    /\ recs = <<>>
    /\ session = <<>>
    /\ analysis_rows = <<>>
    /\ now = 0
    /\ RATE_LIMITED_UNTIL = 0
    /\ client = "none"
    /\ lastCall = <<>>
    /\ threads = <<>>
    /\ pre_p = 0
    /\ raw_bet = NoBet
    /\ bet_row = NoRow
    /\ args = NoArgs
    /\ calc = NoCalc
    /\ orders = NoOrders
    /\ open_orders = NotReturned
    /\ cash = 0
    /\ totals = NoTotals
    /\ startup = NoStartup

ComputePreP ==
    /\ pc = "ready"
    /\ pre_p' = _compute_pre_p(markets[1].domain, markets[1].s)
    /\ pc' = "done"
    /\ UNCHANGED <<threads, raw_bet, bet_row, args, calc, orders,
                   open_orders, cash, totals, startup, kin, kout, markets, risk_mode,
                   recs, session, analysis_rows, now, RATE_LIMITED_UNTIL,
                   client, lastCall>>

NextPreP == ComputePreP

SpecPreP == InitPreP /\ [][NextPreP]_vars

-----------------------------------------------------------------------------
(* get_p_from_gpt run by several threads of one process.  The function takes
   no lock; the statement that arms the guard evaluates
   time.time() + RATE_LIMIT_COOLDOWN_SEC and then stores the value into the
   module global, and a thread switch may fall between any two of its steps. *)

Threads == 1..NumThreads

InitThreads ==
    /\ pc = "ready"
    /\ kin = [p |-> 0, s |-> 0]
    /\ kout = NoKellyOut
    /\ markets = <<>>
    /\ risk_mode = None
    /\ recs = <<>>
    /\ session = <<>>
    /\ analysis_rows = <<>>
    /\ now = 0
    /\ RATE_LIMITED_UNTIL = 0
    /\ client = "ok"
    /\ lastCall = <<>>
    /\ threads = [i \in Threads |-> [pc |-> "guard", deadline |-> 0]]
    /\ pre_p = 0
    /\ raw_bet = NoBet
    /\ bet_row = NoRow
    /\ args = NoArgs
    /\ calc = NoCalc
    /\ orders = NoOrders
    /\ open_orders = NotReturned
    /\ cash = 0
    /\ totals = NoTotals
    /\ startup = NoStartup

ThreadFrame ==
    UNCHANGED <<pre_p, raw_bet, bet_row, args, calc, orders,
                open_orders, cash, totals, startup, pc, kin, kout, markets, risk_mode,
                recs, session, analysis_rows, now, client, lastCall>>

\* line 105: the read of the global and of the clock
CheckGuard(i) ==
    /\ threads[i].pc = "guard"
    /\ threads' = [threads EXCEPT ![i].pc =
                      IF StillRateLimited(now, RATE_LIMITED_UNTIL)
                      THEN "done" ELSE "request"]
    /\ UNCHANGED RATE_LIMITED_UNTIL
    /\ ThreadFrame

\* lines 109-126: the request returns, or raises with status 429
Respond(i) ==
    /\ threads[i].pc = "request"
    /\ \E kind \in {"ok", "rate_limit"} :
          threads' = [threads EXCEPT ![i].pc =
                        IF kind = "rate_limit" THEN "got429" ELSE "done"]
    /\ UNCHANGED RATE_LIMITED_UNTIL
    /\ ThreadFrame

\* line 130, right-hand side
ComputeDeadline(i) ==
    /\ threads[i].pc = "got429"
    /\ threads' = [threads EXCEPT ![i] =
                      [pc |-> "store", deadline |-> now + RATE_LIMIT_COOLDOWN_SEC]]
    /\ UNCHANGED RATE_LIMITED_UNTIL
    /\ ThreadFrame

\* line 130, the store into globals()
StoreDeadline(i) ==
    /\ threads[i].pc = "store"
    /\ RATE_LIMITED_UNTIL' = threads[i].deadline
    /\ threads' = [threads EXCEPT ![i].pc = "armed"]
    /\ ThreadFrame

NextThreads ==
    \/ Tick
    \/ \E i \in Threads : CheckGuard(i)
    \/ \E i \in Threads : Respond(i)
    \/ \E i \in Threads : ComputeDeadline(i)
    \/ \E i \in Threads : StoreDeadline(i)

SpecThreads == InitThreads /\ [][NextThreads]_vars

----------------------------------------------------------------------------
(* web_app.py: the analysis session and the /analysis view *)

\* config.py: RISK_MODE when the environment does not set it
RISK_MODE == DEFAULT_RISK_MODE

MaxSession == 2
MaxQid == 2

\* stored prices: the 0.0 default, a longshot, an even market, a settled one
AnalysisPrices == {0, 5 * Cent, 50 * Cent, Unit}

\* probabilities pasted through /analysis/apply
ManualPs == {0 - 20 * Cent, 51 * Cent, 150 * Cent}

\* upstream behaviours met while the view renders
ViewUpstream ==
    {[kind |-> "ok", p |-> 51 * Cent, reason |-> "because"],
     [kind |-> "ok", p |-> 150 * Cent, reason |-> "because"],
     [kind |-> "api_error", p |-> 0, reason |-> ""],
     [kind |-> "rate_limit", p |-> 0, reason |-> ""],
     [kind |-> "not_json", p |-> 0, reason |-> ""]}

\* a market dict of the session; manual is <<>> or <<p>> (manual_analysis["p"])
\* (question_id, outcome_id) of the markets a client submits: outcome 1 of
\* each question, and an outcome whose id is above 10000
MarketKeys == {<<q, 1>> : q \in 1..MaxQid} \cup {<<1, 10001>>}

SessionMarkets ==
    {[question_id |-> k[1], outcome_id |-> k[2], group |-> {},
      s |-> s, manual |-> <<>>] : k \in MarketKeys, s \in AnalysisPrices}

market_id(m) == m.question_id * 10000 + m.outcome_id

\* lines 533-547 of add_to_analysis: append the markets not yet present
RECURSIVE AddNew(_, _)
AddNew(sess, ms) ==
    IF ms = <<>> THEN sess
    ELSE IF \E i \in 1..Len(sess) : market_id(sess[i]) = market_id(Head(ms))
         THEN AddNew(sess, Tail(ms))
         ELSE AddNew(Append(sess, Head(ms)), Tail(ms))

\* lines 1065-1070 of apply_analysis_input: the first market with the key
ApplyEntry(sess, e) ==
    LET hits == {i \in 1..Len(sess) : sess[i].question_id = e.question_id
                                       /\ sess[i].outcome_id = e.outcome_id}
    IN  IF hits = {} THEN sess
        ELSE LET i == CHOOSE j \in hits : \A k \in hits : j <= k
             IN  [sess EXCEPT ![i].manual = <<e.p>>]

RECURSIVE ApplyEntries(_, _)
ApplyEntries(sess, es) ==
    IF es = <<>> THEN sess
    ELSE ApplyEntries(ApplyEntry(sess, Head(es)), Tail(es))

\* lines 1004-1015 of remove_analysis_market
RECURSIVE Retain(_, _)
Retain(sess, to_remove) ==
    IF sess = <<>> THEN <<>>
    ELSE IF <<Head(sess).question_id, Head(sess).outcome_id>> \in to_remove
         THEN Retain(Tail(sess), to_remove)
         ELSE <<Head(sess)>> \o Retain(Tail(sess), to_remove)

\* lines 626-659 of analysis: the probability of one stored market.
\* cl = "import_error" stands for web_app.get_p_from_gpt being None.
AnalysisP(e, t, until, cl, up) ==
    IF e.manual # <<>>
    THEN [p |-> e.manual[1], reason |-> "Manual analysis applied", until |-> until]
    ELSE IF cl # "import_error"
    THEN LET res == get_p_from_gpt(e, t, until, cl, up, 0)
         IN  IF res.raised = None
             THEN [p |-> res.p, reason |-> res.reason, until |-> res.until]
             ELSE [p |-> e.s, reason |-> "GPT analysis unavailable: RuntimeError",
                   until |-> res.until]
    ELSE [p |-> e.s, reason |-> "GPT analysis unavailable: import failed",
          until |-> until]

\* lines 661-690 of analysis: Kelly sizing of one market and its row
AnalysisRow(e, est) ==
    LET s == e.s
        p == est.p
        kelly_yes == _kelly_yes(p, s)
        kelly_no == _kelly_no(p, s)
        side == IF Geq(kelly_yes, kelly_no) THEN "Yes" ELSE "No"
        kelly == IF side = "Yes" THEN kelly_yes ELSE kelly_no
        risk_fraction == IF RISK_MODE \in StartsWithFull THEN <<1, 1>> ELSE <<1, 2>>
    IN  [question_id |-> e.question_id, outcome_id |-> e.outcome_id,
         gpt_p |-> p, gpt_reason |-> est.reason, s |-> s, edge |-> p - s,
         side |-> side, kelly_full |-> kelly,
         kelly_adjusted |-> Times(kelly, risk_fraction[1], risk_fraction[2])]

\* the loop of analysis over the stored markets, in order; ups[i] is what the
\* upstream does if it is contacted for the i-th market
RECURSIVE AnalysisLoop(_, _, _, _, _, _)
AnalysisLoop(sess, i, t, until, cl, ups) ==
    IF i > Len(sess) THEN [rows |-> <<>>, until |-> until]
    ELSE LET est == AnalysisP(sess[i], t, until, cl, ups[i])
             row == AnalysisRow(sess[i], est)
             rest == AnalysisLoop(sess, i + 1, t, est.until, cl, ups)
         IN  IF Raised(_kelly_yes(est.p, sess[i].s))
                \/ Raised(_kelly_no(est.p, sess[i].s))
             THEN rest  \* except Exception: continue
             ELSE [rows |-> <<row>> \o rest.rows, until |-> rest.until]

----------------------------------------------------------------------------
(* SpecWeb: requests against the analysis session *)

InitWeb ==
    /\ pc = "ready"
    /\ kin = [p |-> 0, s |-> 0]
    /\ kout = NoKellyOut
    /\ markets = <<>>
    /\ risk_mode = None
    /\ recs = <<>>
    /\ session = <<>>
    /\ analysis_rows = <<>>
    /\ now = 1
    /\ RATE_LIMITED_UNTIL = 0
    /\ client \in {"ok", "none", "import_error"}
    /\ lastCall = <<>>
    /\ threads = <<>>
    /\ pre_p = 0
    /\ raw_bet = NoBet
    /\ bet_row = NoRow
    /\ args = NoArgs
    /\ calc = NoCalc
    /\ orders = NoOrders
    /\ open_orders = NotReturned
    /\ cash = 0
    /\ totals = NoTotals
    /\ startup = NoStartup

add_to_analysis ==
    \E m \in SessionMarkets :
        /\ Len(session) < MaxSession
        /\ session' = AddNew(session, <<m>>)
        /\ analysis_rows' = <<>>
        /\ UNCHANGED <<threads, pre_p, raw_bet, bet_row, args, calc, orders,
                       open_orders, cash, totals, startup,
                       pc, kin, kout, markets, risk_mode, recs, now,
                       RATE_LIMITED_UNTIL, client, lastCall>>

apply_analysis_input ==
    \E k \in MarketKeys, mp \in ManualPs :
        /\ session' = ApplyEntries(session, <<[question_id |-> k[1],
                                               outcome_id |-> k[2], p |-> mp]>>)
        /\ analysis_rows' = <<>>
        /\ UNCHANGED <<threads, pre_p, raw_bet, bet_row, args, calc, orders,
                       open_orders, cash, totals, startup,
                       pc, kin, kout, markets, risk_mode, recs, now,
                       RATE_LIMITED_UNTIL, client, lastCall>>

remove_analysis_market ==
    \E k \in MarketKeys :
        /\ session' = Retain(session, {k})
        /\ analysis_rows' = <<>>
        /\ UNCHANGED <<threads, pre_p, raw_bet, bet_row, args, calc, orders,
                       open_orders, cash, totals, startup,
                       pc, kin, kout, markets, risk_mode, recs, now,
                       RATE_LIMITED_UNTIL, client, lastCall>>

clear_analysis ==
    /\ session' = <<>>
    /\ analysis_rows' = <<>>
    /\ UNCHANGED <<threads, pre_p, raw_bet, bet_row, args, calc, orders,
                   open_orders, cash, totals, startup,
                   pc, kin, kout, markets, risk_mode, recs, now,
                   RATE_LIMITED_UNTIL, client, lastCall>>

analysis ==
    \E ups \in [1..Len(session) -> ViewUpstream] :
        LET out == AnalysisLoop(session, 1, now, RATE_LIMITED_UNTIL, client, ups)
        IN  /\ session # <<>>
            /\ analysis_rows' = out.rows
            /\ RATE_LIMITED_UNTIL' = out.until
            /\ UNCHANGED <<threads, pre_p, raw_bet, bet_row, args, calc, orders,
                           open_orders, cash, totals, startup,
                           pc, kin, kout, markets, risk_mode, recs, session,
                           now, client, lastCall>>

NextWeb ==
    \/ add_to_analysis
    \/ apply_analysis_input
    \/ remove_analysis_market
    \/ clear_analysis
    \/ analysis

SpecWeb == InitWeb /\ [][NextWeb]_vars

-----------------------------------------------------------------------------
(* portfolio_client.py: a raw bet of the API mapped to a BetRow, and
   web_app.py: the open positions of the portfolio view.
   Amounts are whole currency units and shares whole shares; prices and
   probabilities are in 1/Unit, so every value (mark_value, ev_value,
   unrealized_pnl) is in 1/Unit of a currency unit.  An optional value is
   <<>> when absent or not a number and <<x>> otherwise. *)

MaxLots == 2

\* one entry of active_purchases; numeric is FALSE when float() raises on it
Purchases == [amount : {0, 30}, shares : {0 - 100, 100}, numeric : BOOLEAN]

RawPrices == {<<>>, <<30 * Cent>>, <<100 * Cent>>}

\* the raw record together with the status_label its caller maps it with
\* (list_open_real_bets: "open", list_closed_real_bets: "closed")
RawBets ==
    [position : {"l", "s", None},
     price : RawPrices,
     active_purchases : UNION { [1..n -> Purchases] : n \in 0..MaxLots },
     status_label : {"open", "closed"}]

\* ?pmap= carries 0.80 or 1.50 for the bet, ?p_<bet_id>= carries 0.20
RequestArgs == [pmap : {<<>>, <<80 * Cent>>, <<150 * Cent>>},
                legacy : {<<>>, <<20 * Cent>>}]

\* lines 200-208: the sums over the purchases float() accepts
RECURSIVE Total(_, _)
Total(purchases, field) ==
    IF purchases = <<>> THEN 0
    ELSE (IF Head(purchases).numeric THEN Head(purchases)[field] ELSE 0)
             + Total(Tail(purchases), field)

_extract_outcome_price(price_val) ==
    IF price_val = <<>> THEN 0 ELSE price_val[1]

_map_bet_always_marked(raw, status_label) ==
    LET total_amount == Total(raw.active_purchases, "amount")
        total_shares == Total(raw.active_purchases, "shares")
        avg_price == IF total_shares # 0 THEN Div(total_amount, total_shares)
                     ELSE Zero
        mark_price == _extract_outcome_price(raw.price)
        mark_value == total_shares * mark_price
    IN  [position |-> IF raw.position = None THEN "l" ELSE raw.position,
         status |-> status_label,
         shares |-> total_shares,
         amount_invested |-> total_amount,
         avg_price |-> avg_price,
         mark_price |-> mark_price,
         mark_value |-> mark_value,
         unrealized_pnl |-> mark_value - total_amount * Unit]

_map_bet(raw, status_label) ==
    LET total_amount == Total(raw.active_purchases, "amount")
        total_shares == Total(raw.active_purchases, "shares")
        avg_price == IF total_shares # 0 THEN Div(total_amount, total_shares)
                     ELSE Zero
        mark_price == _extract_outcome_price(raw.price)
        shares == total_shares
        mark_value == shares * mark_price
        unrealized_pnl == IF status_label = "open"
                          THEN mark_value - total_amount * Unit
                          ELSE 0
    IN  [position |-> IF raw.position = None THEN "l" ELSE raw.position,
         status |-> status_label,
         shares |-> shares,
         amount_invested |-> total_amount,
         avg_price |-> avg_price,
         mark_price |-> mark_price,
         mark_value |-> mark_value,
         unrealized_pnl |-> unrealized_pnl]

clamp01(x) == IF x < 0 THEN 0 ELSE IF x > Unit THEN Unit ELSE x

\* the entry of the parsed map for this bet_id
_pmap_from_request(a) ==
    IF a.pmap = <<>> THEN <<>> ELSE <<clamp01(a.pmap[1])>>

_market_p_win_for_position_long_only(position, outcome_price) ==
    clamp01(outcome_price)

_market_p_win_for_position(position, outcome_price) ==
    LET s == clamp01(outcome_price)
    IN  IF position = "l" THEN s ELSE Unit - s

\* the body of the loop of _calc_open_bets for one BetRow
OpenBetRow(b, pmap_entry, legacy) ==
    LET mkt_p_win == _market_p_win_for_position(b.position, b.mark_price)
        p_user == IF pmap_entry # <<>> THEN pmap_entry[1]
                  ELSE IF legacy # <<>> THEN clamp01(legacy[1])
                  ELSE mkt_p_win
        mv_value == b.mark_value
        ev_value == b.shares * p_user
    IN  [position |-> b.position,
         shares |-> b.shares,
         market_p_win |-> mkt_p_win,
         p_input |-> p_user,
         delta_p |-> p_user - mkt_p_win,
         mv_value |-> mv_value,
         ev_value |-> ev_value,
         ev_edge |-> ev_value - mv_value,
         unrealized_calc |-> mv_value - b.amount_invested * Unit]

RECURSIVE SumOf(_, _)
SumOf(rows, field) ==
    IF rows = <<>> THEN 0 ELSE Head(rows)[field] + SumOf(Tail(rows), field)

\* pmap and legacy hold, for the i-th bet, what the request carries for it
_calc_open_bets_accumulating(open_bets, pmap, legacy) ==
    LET rows == [i \in 1..Len(open_bets) |->
                    OpenBetRow(open_bets[i], pmap[i], legacy[i])]
    IN  [rows |-> rows,
         mv_port |-> calc.mv_port + SumOf(rows, "mv_value"),
         ev_port |-> calc.ev_port + SumOf(rows, "ev_value"),
         total_unrealized |-> calc.total_unrealized + SumOf(rows, "unrealized_calc")]

_calc_open_bets(open_bets, pmap, legacy) ==
    LET rows == [i \in 1..Len(open_bets) |->
                    OpenBetRow(open_bets[i], pmap[i], legacy[i])]
    IN  [rows |-> rows,
         mv_port |-> SumOf(rows, "mv_value"),
         ev_port |-> SumOf(rows, "ev_value"),
         total_unrealized |-> SumOf(rows, "unrealized_calc")]

InitBet ==
    /\ pc = "ready"
    /\ kin = [p |-> 0, s |-> 0]
    /\ kout = NoKellyOut
    /\ markets = <<>>
    /\ risk_mode = None
    /\ recs = <<>>
    /\ session = <<>>
    /\ analysis_rows = <<>>
    /\ now = 0
    /\ RATE_LIMITED_UNTIL = 0
    /\ client = "none"
    /\ lastCall = <<>>
    /\ threads = <<>>
    /\ pre_p = 0
    /\ raw_bet \in RawBets
    /\ bet_row = NoRow
    /\ args \in RequestArgs
    /\ calc = NoCalc
    /\ orders = NoOrders
    /\ open_orders = NotReturned
    /\ cash = 0
    /\ totals = NoTotals
    /\ startup = NoStartup

BetFrame ==
    UNCHANGED <<kin, kout, markets, risk_mode, recs, session, analysis_rows,
                now, RATE_LIMITED_UNTIL, client, lastCall, threads, pre_p,
                raw_bet, args, orders, open_orders, cash, totals,
          startup>>

\* list_open_real_bets / list_closed_real_bets map the record they fetched
MapBet ==
    /\ pc = "ready"
    /\ bet_row' = _map_bet(raw_bet, raw_bet.status_label)
    /\ pc' = "mapped"
    /\ UNCHANGED calc
    /\ BetFrame

\* the portfolio view reconciles the open bets
CalcOpenBets ==
    /\ pc = "mapped"
    /\ bet_row.status = "open"
    /\ calc' = _calc_open_bets(<<bet_row>>, <<_pmap_from_request(args)>>,
                               <<args.legacy>>)
    /\ pc' = "done"
    /\ UNCHANGED bet_row
    /\ BetFrame

NextBet == MapBet \/ CalcOpenBets

SpecBet == InitBet /\ [][NextBet]_vars

-----------------------------------------------------------------------------
(* portfolio_client.py: list_open_limit_orders.  A list of raw orders is
   kept run-length encoded, as a sequence of runs [raw, count] standing for
   count copies of raw in a row, so that a page of 300 orders stays small;
   the mapped rows are kept the same way. *)

NumEndpoints == 7
GlobalTotal == 500
GlobalPage == 300

MaxRuns == 2

\* a resting order of 10 shares at 0.40, 4 or 15 of them filled; the last
\* one carries a field float() raises on
RawOrders ==
    [side : {"bid", "ask"}, price : {40 * Cent}, shares_requested : {10},
     shares_filled : {4, 15}, numeric : {TRUE}]
    \cup {[side |-> "bid", price |-> 40 * Cent, shares_requested |-> 10,
           shares_filled |-> 4, numeric |-> FALSE]}

Runs ==
    [raw : RawOrders, count : {1}]
    \cup {[raw |-> [side |-> "bid", price |-> 40 * Cent, shares_requested |-> 10,
                    shares_filled |-> 4, numeric |-> TRUE],
           count |-> GlobalPage - 1]}

OrderLists == UNION { [1..n -> Runs] : n \in 0..MaxRuns }

\* what call_api may answer: it raises, it returns something that is neither
\* a dict nor a list, a dict (with or without a usable total), or a bare list
Responses ==
    {[kind |-> k, total |-> <<>>, results |-> <<>>] : k \in {"exception", "unexpected"}}
    \cup [kind : {"dict"}, total : {<<>>, <<10>>, <<GlobalTotal + 1>>},
          results : OrderLists]
    \cup [kind : {"list"}, total : {<<>>}, results : OrderLists]

RECURSIVE Count(_)
Count(runs) ==
    IF runs = <<>> THEN 0 ELSE Head(runs).count + Count(Tail(runs))

looks_global(data) ==
    IF data.kind # "dict" THEN FALSE
    ELSE LET total == data.total
             n == Count(data.results)
         IN  IF total # <<>> /\ total[1] > GlobalTotal THEN TRUE
             ELSE IF total = <<>> /\ n >= GlobalPage THEN TRUE
             ELSE FALSE

\* lines 383-411: one raw order mapped to a LimitOrderRow
LimitOrderRow_asks_reserve(raw) ==
    LET remaining == Max(raw.shares_requested - raw.shares_filled, 0)
    IN  [side |-> raw.side, price |-> raw.price,
         shares_requested |-> raw.shares_requested,
         shares_filled |-> raw.shares_filled,
         remaining_shares |-> remaining,
         reserved_notional |-> raw.price * remaining]

LimitOrderRow(raw) ==
    LET remaining == Max(raw.shares_requested - raw.shares_filled, 0)
    IN  [side |-> raw.side, price |-> raw.price,
         shares_requested |-> raw.shares_requested,
         shares_filled |-> raw.shares_filled,
         remaining_shares |-> remaining,
         reserved_notional |-> IF raw.side = "bid" THEN raw.price * remaining
                               ELSE 0]

\* lines 381-414: the rows of the accepted results; an order that raises
\* while it is mapped is left out
RECURSIVE MapRows(_)
MapRows(runs) ==
    IF runs = <<>> THEN <<>>
    ELSE IF Head(runs).raw.numeric
         THEN <<[row |-> LimitOrderRow(Head(runs).raw), count |-> Head(runs).count]>>
                  \o MapRows(Tail(runs))
         ELSE MapRows(Tail(runs))

\* errors[-6:]
LastSix(errors) ==
    IF Len(errors) <= 6 THEN errors
    ELSE SubSeq(errors, Len(errors) - 5, Len(errors))

\* One pass of the loop over candidate_endpoints with data what call_api did;
\* after a failure at the last endpoint the function returns the message.
AfterFailure(error) ==
    LET errors == Append(orders.errors, error)
    IN  IF orders.next = NumEndpoints
        THEN /\ open_orders' = [NotReturned EXCEPT !.returned = TRUE,
                                                   !.err = LastSix(errors)]
             /\ orders' = NoOrders
        ELSE /\ orders' = [next |-> orders.next + 1, errors |-> errors]
             /\ UNCHANGED open_orders

OrdersFrame ==
    UNCHANGED <<pc, kin, kout, markets, risk_mode, recs, session, analysis_rows,
                now, RATE_LIMITED_UNTIL, client, lastCall, threads, pre_p,
                raw_bet, bet_row, args, calc, cash, totals, startup>>

TryEndpoint ==
    /\ ~open_orders.returned
    /\ orders.next <= NumEndpoints
    /\ \E data \in Responses :
          IF data.kind = "exception" THEN AfterFailure("exception")
          ELSE IF data.kind \notin {"dict", "list"}
          THEN AfterFailure("unexpected response type")
          ELSE IF looks_global(data)
          THEN AfterFailure("looks like GLOBAL order book (rejected)")
          ELSE /\ open_orders' = [returned |-> TRUE,
                                  rows |-> MapRows(data.results),
                                  err |-> <<>>,
                                  endpoint |-> orders.next,
                                  data |-> data]
               /\ orders' = NoOrders
    /\ OrdersFrame

InitOrders ==
    /\ pc = "ready"
    /\ kin = [p |-> 0, s |-> 0]
    /\ kout = NoKellyOut
    /\ markets = <<>>
    /\ risk_mode = None
    /\ recs = <<>>
    /\ session = <<>>
    /\ analysis_rows = <<>>
    /\ now = 0
    /\ RATE_LIMITED_UNTIL = 0
    /\ client = "none"
    /\ lastCall = <<>>
    /\ threads = <<>>
    /\ pre_p = 0
    /\ raw_bet = NoBet
    /\ bet_row = NoRow
    /\ args = NoArgs
    /\ calc = NoCalc
    /\ orders = NoOrders
    /\ open_orders = NotReturned
    /\ cash = 0
    /\ totals = NoTotals
    /\ startup = NoStartup

NextOrders == TryEndpoint

SpecOrders == InitOrders /\ [][NextOrders]_vars

-----------------------------------------------------------------------------
(* web_app.py: the /portfolio view.  It fetches the bets, then the limit
   orders, then reconciles.  In SpecPortfolio the first endpoint of the order
   API answers, and the view may be requested a second time while the API
   still answers the same. *)

\* one purchase of 100 shares for 30, long or short, marked at 0.30 or 1.00
PortfolioBets ==
    [position : {"l", "s"},
     price : {<<30 * Cent>>, <<100 * Cent>>},
     active_purchases : {<<[amount |-> 30, shares |-> 100, numeric |-> TRUE]>>},
     status_label : {"open", "closed"}]

CashAmounts == {0, 50}

RECURSIVE ReservedSum(_)
ReservedSum(rows) ==
    IF rows = <<>> THEN 0
    ELSE Head(rows).row.reserved_notional * Head(rows).count
             + ReservedSum(Tail(rows))

\* lines 1278-1285
PortfolioTotals(c, order_rows, cash_units) ==
    LET reserved_notional == IF order_rows # <<>> THEN ReservedSum(order_rows)
                             ELSE 0
    IN  [mv_total |-> c.mv_port + cash_units * Unit,
         ev_total |-> c.ev_port + cash_units * Unit,
         reserved_notional |-> reserved_notional,
         total_exposure |-> c.mv_port + reserved_notional]

InitPortfolio ==
    /\ pc = "ready"
    /\ kin = [p |-> 0, s |-> 0]
    /\ kout = NoKellyOut
    /\ markets = <<>>
    /\ risk_mode = None
    /\ recs = <<>>
    /\ session = <<>>
    /\ analysis_rows = <<>>
    /\ now = 0
    /\ RATE_LIMITED_UNTIL = 0
    /\ client = "none"
    /\ lastCall = <<>>
    /\ threads = <<>>
    /\ pre_p = 0
    /\ raw_bet \in PortfolioBets
    /\ bet_row = NoRow
    /\ args \in RequestArgs
    /\ calc = NoCalc
    /\ orders = NoOrders
    /\ open_orders = NotReturned
    /\ cash \in CashAmounts
    /\ totals = NoTotals
    /\ startup = NoStartup

\* list_open_limit_orders, answered at its first endpoint
FetchOrders ==
    /\ pc = "mapped"
    /\ TryEndpoint
    /\ open_orders'.returned
    /\ open_orders'.endpoint = 1

\* lines 1276-1285, for a first request and for a repeated one
portfolio ==
    /\ pc \in {"mapped", "done"}
    /\ open_orders.returned
    /\ LET open_bets == IF bet_row.status = "open" THEN <<bet_row>> ELSE <<>>
           pmap == [i \in 1..Len(open_bets) |-> _pmap_from_request(args)]
           legacy == [i \in 1..Len(open_bets) |-> args.legacy]
           res == _calc_open_bets(open_bets, pmap, legacy)
       IN  /\ calc' = res
           /\ totals' = PortfolioTotals(res, open_orders.rows, cash)
    /\ pc' = IF pc = "mapped" THEN "done" ELSE "again"
    /\ UNCHANGED <<kin, kout, markets, risk_mode, recs, session, analysis_rows,
                   now, RATE_LIMITED_UNTIL, client, lastCall, threads, pre_p,
                   raw_bet, bet_row, args, orders, open_orders, cash,
                   startup>>

NextPortfolio == MapBet \/ FetchOrders \/ portfolio

SpecPortfolio == InitPortfolio /\ [][NextPortfolio]_vars

-----------------------------------------------------------------------------
(* config.py, main.py, web_app.py: an entry point starting up.
   An environment value is "unset", "blank" (only white space) or "set".
   src/config.py defines no validate_config, so the import in main.py line 11
   and web_app.py line 13 raises ImportError; has_validate = TRUE is a
   deployment whose config module supplies the function, which then raises
   ValueError naming every credential that is empty. *)

MaxServed == 3

EnvValues == {"unset", "blank", "set"}

\* os.getenv(name, "").strip()
StripEnv(v) == IF v = "set" THEN "key" ELSE ""

\* the credentials validate_config finds missing
validate_config(cfg) ==
    {n \in {"FUTUUR_PUBLIC_KEY", "FUTUUR_PRIVATE_KEY"} : cfg[n] = ""}

InitStartup ==
    /\ pc = "ready"
    /\ kin = [p |-> 0, s |-> 0]
    /\ kout = NoKellyOut
    /\ markets = <<>>
    /\ risk_mode = None
    /\ recs = <<>>
    /\ session = <<>>
    /\ analysis_rows = <<>>
    /\ now = 1
    /\ RATE_LIMITED_UNTIL = 0
    /\ client = "ok"
    /\ lastCall = <<>>
    /\ threads = <<>>
    /\ pre_p = 0
    /\ raw_bet = NoBet
    /\ bet_row = NoRow
    /\ args = NoArgs
    /\ calc = NoCalc
    /\ orders = NoOrders
    /\ open_orders = NotReturned
    /\ cash = 0
    /\ totals = NoTotals
    /\ \E e \in {"main", "web_app"}, pu, pr \in EnvValues, h \in BOOLEAN :
           startup = [NoStartup EXCEPT !.entry = e, !.pub = pu, !.priv = pr,
                                       !.has_validate = h]

StartupFrame ==
    UNCHANGED <<pc, kin, kout, markets, risk_mode, recs, session, analysis_rows,
                now, RATE_LIMITED_UNTIL, client, lastCall, threads, pre_p,
                raw_bet, bet_row, args, calc, orders, open_orders, cash,
                totals>>

\* "from config import ... validate_config": config.py runs, then the name
\* is looked up in it
ImportConfig ==
    /\ startup.pc = "start"
    /\ startup' =
           IF startup.has_validate
           THEN [startup EXCEPT !.pc = "imported",
                                !.FUTUUR_PUBLIC_KEY = StripEnv(startup.pub),
                                !.FUTUUR_PRIVATE_KEY = StripEnv(startup.priv)]
           ELSE [startup EXCEPT !.pc = "crashed",
                                !.error = <<[type |-> "ImportError",
                                             names |-> {"validate_config"}]>>]
    /\ StartupFrame

\* main.py lines 15-20: a ValueError is printed and the process exits
ValidateMain ==
    /\ startup.entry = "main"
    /\ startup.pc = "imported"
    /\ LET missing == validate_config(startup)
       IN  startup' =
               IF missing # {}
               THEN [startup EXCEPT !.pc = "exited",
                                    !.error = <<[type |-> "ValueError",
                                                 names |-> missing]>>]
               ELSE [startup EXCEPT !.pc = "running"]
    /\ StartupFrame

\* web_app.py lines 44-48: a ValueError is logged and the module goes on
ValidateWeb ==
    /\ startup.entry = "web_app"
    /\ startup.pc = "imported"
    /\ LET missing == validate_config(startup)
       IN  startup' =
               IF missing # {}
               THEN [startup EXCEPT !.pc = "running",
                                    !.logged = <<[type |-> "ValueError",
                                                  names |-> missing]>>]
               ELSE [startup EXCEPT !.pc = "running"]
    /\ StartupFrame

\* main.py main(): the markets are fetched
LoadMarkets ==
    /\ startup.entry = "main"
    /\ startup.pc = "running"
    /\ startup.served < MaxServed
    /\ startup' = [startup EXCEPT !.served = @ + 1]
    /\ StartupFrame

\* web_app.py app.run: a request is served
ServeRequest ==
    /\ startup.entry = "web_app"
    /\ startup.pc = "running"
    /\ startup.served < MaxServed
    /\ startup' = [startup EXCEPT !.served = @ + 1]
    /\ StartupFrame

NextStartup ==
    \/ ImportConfig
    \/ ValidateMain
    \/ ValidateWeb
    \/ LoadMarkets
    \/ ServeRequest

SpecStartup == InitStartup /\ [][NextStartup]_vars

----------------------------------------------------------------------------
(* Properties *)

InUnitOpen(x) == 0 < x /\ x < Unit

NonNeg(f) == f[2] > 0 /\ f[1] >= 0

\* C1 (SpecKelly): for p and s strictly between 0 and 1 both Kelly fractions
\* are >= 0 and at most one of them is positive.
C1_KellyNonNegExclusive ==
    (pc = "done" /\ InUnitOpen(kin.p) /\ InUnitOpen(kin.s)) =>
        /\ NonNeg(kout.yes)
        /\ NonNeg(kout.no)
        /\ IsPos(kout.yes) => IsZero(kout.no)
        /\ IsPos(kout.no) => IsZero(kout.yes)

C1_Witness ==
    /\ pc = "done"
    /\ InUnitOpen(kin.p) /\ InUnitOpen(kin.s)
    /\ kin.p < kin.s
    /\ IsPos(kout.no)
    /\ IsZero(kout.yes)

\* C2 (SpecKelly): at a market price of exactly 0 or exactly 1 and any p in
\* [0,1] the sizer raises nothing and both the Yes and the No fraction are 0.
C2_BoundaryBothZero ==
    (pc = "done" /\ kin.s \in {0, Unit} /\ 0 <= kin.p /\ kin.p <= Unit) =>
        /\ ~Raised(kout.yes) /\ ~Raised(kout.no)
        /\ IsZero(kout.yes) /\ IsZero(kout.no)

\* C3 (Spec): every recommendation reports its side and that side's edge, and
\* its kelly_full and kelly_half are 0 whenever |edge| < 0.02, in each risk mode.
C3_TinyEdgeUnsized ==
    pc = "done" =>
        \A i \in 1..Len(recs) :
            LET r == recs[i]
            IN  /\ r.side \in {"yes", "no"}
                /\ r.edge0 = (IF r.side = "yes" THEN r.p0 - r.s ELSE r.s - r.p0)
                /\ Abs(r.edge0) < EDGE_THRESHOLD =>
                       IsZero(r.kelly_full) /\ IsZero(r.kelly_half)

\* s = 0.05: p0 = 0.04, side No with raw Kelly 0.2, edge 0.01, nothing sized
C3_Witness ==
    /\ pc = "done"
    /\ \E i \in 1..Len(recs) :
           /\ recs[i].s = 5 * Cent
           /\ recs[i].p0 = 4 * Cent
           /\ recs[i].side = "no"
           /\ recs[i].edge0 = Cent
           /\ IsPos(_kelly_no(recs[i].p0, recs[i].s))
           /\ IsZero(recs[i].kelly_full)

\* C4 (SpecWeb): every row of the /analysis view has Kelly fraction 0, full
\* and risk-adjusted, whenever |p - s| < 0.02.
C4_ViewTinyEdgeUnsized ==
    \A i \in 1..Len(analysis_rows) :
        LET row == analysis_rows[i]
        IN  Abs(row.gpt_p - row.s) < EDGE_THRESHOLD =>
                IsZero(row.kelly_full) /\ IsZero(row.kelly_adjusted)

\* C5 (Spec): the limit price of a recommendation is s on the Yes side and
\* 1 - s on the No side.
C5_LimitBySide ==
    pc = "done" =>
        \A i \in 1..Len(recs) :
            recs[i].limit = (IF recs[i].side = "yes" THEN recs[i].s
                             ELSE Unit - recs[i].s)

\* the sizer re-run at a recommendation's limit price finds no edge at all
NoEdgeAtLimit(r) ==
    /\ r.p0 - r.limit = 0
    /\ IsZero(_kelly_yes(r.p0, r.limit))
    /\ IsZero(_kelly_no(r.p0, r.limit))

\* C6 as stated (Spec): for every recommendation, the sizer re-run with the
\* limit price as market price and the same p has zero edge and zero Kelly.
C6_RoundTripZero ==
    pc = "done" => \A i \in 1..Len(recs) : NoEdgeAtLimit(recs[i])

\* C6 amended (Spec): the re-run has zero edge and zero Kelly on both sides
\* exactly for the recommendations whose own edge is zero (p0 = s).
C6_RoundTripZeroIffNoEdge ==
    pc = "done" =>
        \A i \in 1..Len(recs) : NoEdgeAtLimit(recs[i]) <=> recs[i].edge0 = 0

C6_Witness ==
    /\ pc = "done"
    /\ \E i, j \in 1..Len(recs) :
           /\ recs[i].p0 = recs[i].s /\ NoEdgeAtLimit(recs[i])
           /\ recs[j].p0 # recs[j].s /\ ~NoEdgeAtLimit(recs[j])

\* C7 (SpecWeb): every probability the /analysis view sizes lies in [0,1].
C7_SizedPInUnitInterval ==
    \A i \in 1..Len(analysis_rows) :
        0 <= analysis_rows[i].gpt_p /\ analysis_rows[i].gpt_p <= Unit

\* C8 (SpecGpt): get_p_from_gpt raises nothing; whenever the upstream call
\* does not deliver a numeric p the result is the fallback estimate.
C8_NeverRaises ==
    lastCall # <<>> =>
        LET c == lastCall[1]
        IN  /\ c.res.raised = None
            /\ (c.res.contacted /\ c.up.kind # "ok") =>
                   c.res.p = _fallback_p(c.m, "").p

FailureReasons ==
    {"API error: connection failed",
     "OpenAI rate limit exceeded; using market price",
     "OpenAI rate limit still in effect; using market price",
     "No module named 'openai'"}

\* C9 (SpecGpt): after a transport error the returned p is the heuristic
\* _compute_pre_p(domain, s) and the reason mentions the failure.
C9_TransportFallbackIsHeuristic ==
    (lastCall # <<>> /\ lastCall[1].res.contacted
        /\ lastCall[1].up.kind = "api_error") =>
        /\ lastCall[1].res.raised = None
        /\ lastCall[1].res.p = _compute_pre_p(lastCall[1].m.domain, lastCall[1].m.s)
        /\ lastCall[1].res.reason \in FailureReasons

\* C10 (SpecGpt): a call that receives a 429 at time t leaves the deadline at
\* t + 60, and a call entered before the deadline returns the fallback
\* estimate without contacting the upstream service.
C10_CooldownGuard ==
    lastCall # <<>> =>
        LET c == lastCall[1]
        IN  /\ (c.res.contacted /\ c.up.kind = "rate_limit") =>
                   RATE_LIMITED_UNTIL = c.res.t_end + 60
            /\ c.t0 < c.until_before =>
                   /\ ~c.res.contacted
                   /\ c.res.raised = None
                   /\ c.res.p = _fallback_p(c.m, "").p
                   /\ RATE_LIMITED_UNTIL = c.until_before

\* a call during the cooldown that the upstream would have answered
C10_Witness ==
    /\ lastCall # <<>>
    /\ client = "ok"
    /\ lastCall[1].until_before > 60
    /\ lastCall[1].t0 < lastCall[1].until_before
    /\ lastCall[1].up.kind = "ok"
    /\ ~lastCall[1].res.contacted

RateLimited == now < RATE_LIMITED_UNTIL

\* C11 (SpecGptLive): a call entered once the clock has reached the deadline
\* contacts the upstream again; only a contacted call answered 429 changes the
\* deadline; and under an advancing clock RateLimited always ends.
C11_GuardRecovers ==
    /\ [](lastCall # <<>> =>
            LET c == lastCall[1]
            IN  /\ (client = "ok" /\ c.t0 >= c.until_before) => c.res.contacted
                /\ c.res.until # c.until_before =>
                       c.res.contacted /\ c.up.kind = "rate_limit"
                /\ (c.res.contacted /\ c.up.kind # "rate_limit") =>
                       RATE_LIMITED_UNTIL = c.until_before)
    /\ (RateLimited ~> ~RateLimited)

\* a call after an earlier cooldown has run out, answered by the upstream
C11_Witness ==
    /\ lastCall # <<>>
    /\ lastCall[1].until_before > 60
    /\ lastCall[1].t0 >= lastCall[1].until_before
    /\ lastCall[1].res.contacted
    /\ lastCall[1].up.kind = "ok"
    /\ ~RateLimited

Finished(i) == threads[i].pc \in {"done", "armed"}

\* C12 (SpecThreads): the process-wide deadline never decreases, and once
\* every thread has returned it is the latest deadline any thread computed.
C12_DeadlineMonotone ==
    /\ [][RATE_LIMITED_UNTIL' >= RATE_LIMITED_UNTIL]_vars
    /\ []((threads # <<>> /\ \A i \in Threads : Finished(i)) =>
            \A i \in Threads :
                threads[i].pc = "armed" => RATE_LIMITED_UNTIL >= threads[i].deadline)

\* C13 (SpecPreP): for a market with one tag (or none) and 0 < s < 1 the
\* estimate is 0.04 for s <= 0.10 and 0.90 for s >= 0.90 whatever the tag;
\* between them p - 0.5 is half of s - 0.5 for finance and science, and for
\* the other tags p is 0.5 + 0.3 (s - 0.5), lowered by 0.10 above 0.65, raised
\* by 0.10 below 0.35, kept inside [0.01, 0.99].
C13_PrePHeuristic ==
    (pc = "done" /\ Cardinality(markets[1].domain) <= 1 /\ InUnitOpen(markets[1].s)) =>
        LET d == markets[1].domain
            s == markets[1].s
            dev == s - 50 * Cent
            trim == IF 100 * s > 65 * Unit THEN 0 - 10 * Cent
                    ELSE IF 100 * s < 35 * Unit THEN 10 * Cent
                    ELSE 0
            narrative == 10 * 50 * Cent + 3 * dev + 10 * trim
        IN  CASE 10 * s <= Unit -> 100 * pre_p = 4 * Unit
              [] 10 * s >= 9 * Unit -> 100 * pre_p = 90 * Unit
              [] OTHER ->
                   IF d \in {{"finance"}, {"science"}}
                   THEN 2 * (pre_p - 50 * Cent) = dev
                   ELSE 10 * pre_p = Max(10 * Cent, Min(10 * 99 * Cent, narrative))

\* a finance longshot at 0.05 is faded to 0.04, not shrunk to 0.275
C13_Witness ==
    /\ pc = "done"
    /\ markets[1].domain = {"finance"}
    /\ markets[1].s = 5 * Cent
    /\ pre_p = 4 * Cent

RecSet == { recs[i] : i \in 1..Len(recs) }

\* the two Kelly fractions of a recommendation, from its p0 and s
YesFraction(r) == IF r.p0 > r.s THEN <<r.p0 - r.s, Unit - r.s>> ELSE Zero

NoFraction(r) == IF r.p0 < r.s THEN <<r.s - r.p0, r.s>> ELSE Zero

\* C14 (Spec): a recommendation reports the side with the larger Kelly
\* fraction (yes on f_yes >= f_no) when one of them is positive, its edge is
\* p - s for yes and s - p for no; when both fractions are zero the edge
\* reported is no smaller in magnitude than the other side's, kelly_full is 0
\* and the market is in the output all the same.
C14_SideSelection ==
    pc = "done" =>
        /\ \A r \in RecSet :
             /\ (IsPos(YesFraction(r)) \/ IsPos(NoFraction(r))) =>
                    (r.side = "yes" <=> Geq(YesFraction(r), NoFraction(r)))
             /\ r.side = "yes" => r.edge0 = r.p0 - r.s
             /\ r.side = "no" => r.edge0 = r.s - r.p0
             /\ r.side \in {"yes", "no"}
             /\ (IsZero(YesFraction(r)) /\ IsZero(NoFraction(r))) =>
                    /\ Abs(r.edge0) >= Abs(0 - r.edge0)
                    /\ IsZero(r.kelly_full)
        /\ \A i \in 1..Len(markets) :
             LET m == markets[i]
             IN  (InUnitOpen(m.s) /\ _compute_pre_p(m.domain, m.s) = m.s) =>
                     \E r \in RecSet : r.market = m /\ IsZero(r.kelly_full)

\* one market sized on the no side next to one at p = s that is only listed
C14_Witness ==
    /\ pc = "done"
    /\ \E r \in RecSet : r.side = "no" /\ IsPos(r.kelly_full)
    /\ \E r \in RecSet : r.p0 = r.s /\ r.side = "yes" /\ IsZero(r.kelly_full)

\* the Kelly fraction of the reported side after the edge threshold
ThresholdedFraction(r) ==
    IF Abs(r.edge0) < 2 * Cent THEN Zero
    ELSE IF r.side = "yes" THEN YesFraction(r)
    ELSE NoFraction(r)

Occurrences(seq, x) == Cardinality({ i \in 1..Len(seq) : seq[i] = x })

\* C16 (Spec): the output holds one recommendation for every input market
\* with 0 < s < 1 and none for a market with s <= 0 or s >= 1, and the call
\* leaves its list of markets as it was.
C16_RangeFilter ==
    /\ [](pc = "done" =>
            /\ \A i \in 1..Len(markets) :
                 LET m == markets[i]
                 IN  Cardinality({ j \in 1..Len(recs) : recs[j].market = m }) =
                         (IF InUnitOpen(m.s) THEN Occurrences(markets, m) ELSE 0)
            /\ \A j \in 1..Len(recs) :
                 /\ InUnitOpen(recs[j].s)
                 /\ \E i \in 1..Len(markets) : markets[i] = recs[j].market)
    /\ [][markets' = markets]_vars

\* of two markets, one priced at 1 or more was dropped and the other kept
C16_Witness ==
    /\ pc = "done"
    /\ Len(markets) = 2
    /\ markets[1].s >= Unit
    /\ InUnitOpen(markets[2].s)
    /\ Len(recs) = 1
    /\ recs[1].market = markets[2]

\* C17 (Spec): in the returned list the absolute edge never grows from one
\* recommendation to the next.
C17_SortedByAbsEdge ==
    pc = "done" =>
        \A i \in 1..(Len(recs) - 1) :
            Abs(recs[i].edge0) >= Abs(recs[i + 1].edge0)

\* two markets given smaller edge first come out larger edge first
C17_Witness ==
    /\ pc = "done"
    /\ Len(recs) = 2
    /\ recs[1].market = markets[2]
    /\ recs[2].market = markets[1]
    /\ Abs(recs[1].edge0) > Abs(recs[2].edge0)

\* C18 (SpecKelly): for a price s in (0,1) the yes fraction at p is larger
\* than at every p2 with p > p2 > s, the no fraction at p is larger than at
\* every p2 with p < p2 < s, and at p = s both fractions are 0.
C18_KellyMonotone ==
    (pc = "done" /\ InUnitOpen(kin.s)) =>
        /\ \A p2 \in KellyGrid :
             /\ (kin.p > p2 /\ p2 > kin.s) => Gt(kout.yes, _kelly_yes(p2, kin.s))
             /\ (kin.p < p2 /\ p2 < kin.s) => Gt(kout.no, _kelly_no(p2, kin.s))
        /\ kin.p = kin.s => IsZero(kout.yes) /\ IsZero(kout.no)

\* s = 0.50: the yes fraction at p = 0.75 is 1/2, above the 1/5 at p = 0.60
C18_Witness ==
    /\ pc = "done"
    /\ kin = [p |-> 75 * Cent, s |-> 50 * Cent]
    /\ Eq(kout.yes, <<1, 2>>)
    /\ Gt(kout.yes, _kelly_yes(60 * Cent, kin.s))
    /\ Eq(_kelly_yes(60 * Cent, kin.s), <<1, 5>>)

\* every purchase of the raw bet stores a share count that is not negative
StoredMagnitudes ==
    \A i \in 1..Len(raw_bet.active_purchases) :
        raw_bet.active_purchases[i].shares >= 0

\* C19 (SpecBet): when the purchases store magnitudes, a short ("s") is
\* mapped to minus the summed shares and to mark_value = -shares * mark_price,
\* a long to the positive values, and the reconciled ev_value is the signed
\* share count times user_p.
C19_ShortsSignedNegative ==
    (pc \in {"mapped", "done"} /\ StoredMagnitudes) =>
        LET magnitude == Total(raw_bet.active_purchases, "shares")
            shares_signed == IF bet_row.position = "s" THEN 0 - magnitude
                             ELSE magnitude
        IN  /\ bet_row.shares = shares_signed
            /\ bet_row.mark_value = shares_signed * bet_row.mark_price
            /\ pc = "done" =>
                   calc.rows[1].ev_value = shares_signed * calc.rows[1].p_input

\* C20 (SpecBet): avg_price is total_amount / total_shares when the summed
\* shares are positive and 0 when they are zero or negative.
C20_AvgPriceGuard ==
    pc \in {"mapped", "done"} =>
        LET total_amount == Total(raw_bet.active_purchases, "amount")
            total_shares == Total(raw_bet.active_purchases, "shares")
        IN  IF total_shares > 0
            THEN /\ bet_row.avg_price[2] > 0
                 /\ bet_row.avg_price[1] * total_shares
                        = total_amount * bet_row.avg_price[2]
            ELSE IsZero(bet_row.avg_price)

\* C21 (SpecBet): a bet mapped as "open" has unrealized_pnl = mark_value -
\* total_amount, a bet mapped as "closed" has unrealized_pnl = 0, whatever its
\* purchases and mark price; the reconciler recomputes the same difference
\* for the open bet.
C21_UnrealizedByStatus ==
    pc \in {"mapped", "done"} =>
        LET total_amount == Total(raw_bet.active_purchases, "amount")
        IN  /\ raw_bet.status_label = "open" =>
                   bet_row.unrealized_pnl = bet_row.mark_value - total_amount * Unit
            /\ raw_bet.status_label = "closed" => bet_row.unrealized_pnl = 0
            /\ pc = "done" =>
                   calc.rows[1].unrealized_calc = bet_row.mark_value - total_amount * Unit

\* a closed bet whose mark value differs from what was paid, mapped with 0
C21_Witness ==
    /\ pc = "mapped"
    /\ raw_bet.status_label = "closed"
    /\ bet_row.mark_value # bet_row.amount_invested * Unit
    /\ bet_row.mark_value # 0
    /\ bet_row.unrealized_pnl = 0

\* the probability the request supplies for the bet, as a probability in
\* [0,1]: the pmap entry, else the p_<bet_id> argument, else none
Override ==
    LET given == IF args.pmap # <<>> THEN args.pmap
                 ELSE args.legacy
    IN  IF given = <<>> THEN <<>>
        ELSE <<Max(0, Min(Unit, given[1]))>>

\* mark_price for a long, 1 - mark_price for a short
MarketImplied ==
    IF bet_row.position = "s" THEN Unit - bet_row.mark_price
    ELSE bet_row.mark_price

\* C22 (SpecBet): for the open position user_p is the override when the
\* request carries one and the market-implied win probability otherwise;
\* delta_p = user_p - market-implied, hence 0 without an override.
C22_UserPAndDelta ==
    pc = "done" =>
        LET row == calc.rows[1]
        IN  /\ row.market_p_win = MarketImplied
            /\ Override # <<>> => row.p_input = Override[1]
            /\ Override = <<>> => row.p_input = MarketImplied /\ row.delta_p = 0
            /\ row.delta_p = row.p_input - MarketImplied

\* the short at mark 0.30 with override 0.80: implied 0.70, delta_p +0.10
C22_Witness ==
    /\ pc = "done"
    /\ bet_row.position = "s"
    /\ bet_row.mark_price = 30 * Cent
    /\ args.pmap = <<80 * Cent>>
    /\ calc.rows[1].market_p_win = 70 * Cent
    /\ calc.rows[1].p_input = 80 * Cent
    /\ calc.rows[1].delta_p = 10 * Cent

\* what the bid orders among the rows reserve: price * remaining each
RECURSIVE BidNotional(_)
BidNotional(rows) ==
    IF rows = <<>> THEN 0
    ELSE (IF Head(rows).row.side = "bid"
          THEN Head(rows).row.price * Head(rows).row.remaining_shares * Head(rows).count
          ELSE 0)
         + BidNotional(Tail(rows))

\* C23 (SpecPortfolio): every mapped limit order has remaining_shares =
\* max(shares_requested - shares_filled, 0) >= 0 and reserves price *
\* remaining_shares when it is a bid and 0 when it is an ask; the reserved
\* notional of the portfolio is the sum over the bids.
C23_ReservedNotional ==
    /\ \A k \in 1..Len(open_orders.rows) :
         LET r == open_orders.rows[k].row
             open == r.shares_requested - r.shares_filled
         IN  /\ r.remaining_shares = (IF open > 0 THEN open ELSE 0)
             /\ r.remaining_shares >= 0
             /\ r.side = "bid" => r.reserved_notional = r.price * r.remaining_shares
             /\ r.side = "ask" => r.reserved_notional = 0
    /\ pc \in {"done", "again"} =>
           totals.reserved_notional = BidNotional(open_orders.rows)

\* an ask with 6 shares left next to a bid with 6 shares left: only the bid's
\* 6 * 0.40 is reserved
C23_Witness ==
    /\ pc = "done"
    /\ Len(open_orders.rows) = 2
    /\ open_orders.rows[1].row.side = "ask"
    /\ open_orders.rows[1].row.remaining_shares = 6
    /\ open_orders.rows[2].row.side = "bid"
    /\ open_orders.rows[2].row.remaining_shares = 6
    /\ open_orders.rows[2].count = 1
    /\ totals.reserved_notional = 6 * 40 * Cent

C27_NeverGlobalBook ==
    open_orders.returned =>
        IF open_orders.err = <<>>
        THEN LET d == open_orders.data
             IN  /\ ~(d.total # <<>> /\ d.total[1] > 500)
                 /\ ~(d.total = <<>> /\ Count(d.results) >= 300)
        ELSE open_orders.rows = <<>>

\* C30 (SpecPortfolio): an open position without an override, its mark price
\* in [0,1], has ev_value = mark_value and ev_edge = 0, long or short, so that
\* ev_port = mv_port and ev_total = mv_total.
C30_NoOverrideNoEdge ==
    (pc \in {"done", "again"} /\ Override = <<>>
        /\ bet_row.mark_price >= 0 /\ bet_row.mark_price <= Unit) =>
        /\ \A i \in 1..Len(calc.rows) :
             /\ calc.rows[i].ev_value = calc.rows[i].mv_value
             /\ calc.rows[i].ev_edge = 0
        /\ calc.ev_port = calc.mv_port
        /\ totals.ev_total = totals.mv_total


\* C25 (SpecWeb): a stored market whose price is the sentinel 0.0 is never
\* sized by the /analysis view: none of its rows reports a Kelly fraction
\* above 0, full or risk-adjusted.
C25_SentinelNeverSized ==
    \A i \in 1..Len(analysis_rows) :
        analysis_rows[i].s = 0 =>
            /\ ~IsPos(analysis_rows[i].kelly_full)
            /\ ~IsPos(analysis_rows[i].kelly_adjusted)


\* the required credentials that are missing from the environment
MissingCredentials ==
    {n \in {"FUTUUR_PUBLIC_KEY", "FUTUUR_PRIVATE_KEY"} :
        StripEnv(IF n = "FUTUUR_PUBLIC_KEY" THEN startup.pub ELSE startup.priv) = ""}

\* C26 (SpecStartup): with a required credential missing, an entry point
\* serves no request and fetches no market, and once its start-up is over it
\* has stopped with an error that names a missing credential.
C26_MissingCredentialFatal ==
    (startup.entry # "none" /\ MissingCredentials # {}) =>
        /\ startup.served = 0
        /\ startup.pc # "running"
        /\ startup.pc \in {"exited", "crashed"} =>
               /\ startup.error # <<>>
               /\ startup.error[1].names \cap MissingCredentials # {}


\* some entry of the list has the (question_id, outcome_id) pair of m
HasPair(sess, m) ==
    \E i \in 1..Len(sess) : /\ sess[i].question_id = m.question_id
                             /\ sess[i].outcome_id = m.outcome_id

\* C28 (SpecWeb): whatever requests came before, add_to_analysis appends a
\* submitted market exactly when no entry of the list has its
\* (question_id, outcome_id) pair, and the list never holds a pair twice.
C28_DedupeByPair ==
    [][\A m \in SessionMarkets :
           (/\ Len(session) < MaxSession
            /\ session' = AddNew(session, <<m>>)
            /\ analysis_rows' = <<>>
            /\ RATE_LIMITED_UNTIL' = RATE_LIMITED_UNTIL) =>
               /\ (session' = Append(session, m)) <=> ~HasPair(session, m)
               /\ \A i, j \in 1..Len(session') :
                      (/\ session'[i].question_id = session'[j].question_id
                       /\ session'[i].outcome_id = session'[j].outcome_id) => i = j
      ]_vars


\* C29 (Spec): every recommendation has edge0 >= 0; the side it reports has
\* a positive Kelly fraction unless p0 = s, and both fractions are zero only
\* when p0 = s, where the side is "yes" and the edge is 0.
C29_EdgeNonNegative ==
    pc = "done" =>
        \A i \in 1..Len(recs) :
            LET r == recs[i]
                f_yes == _kelly_yes(r.p0, r.s)
                f_no == _kelly_no(r.p0, r.s)
            IN  /\ r.edge0 >= 0
                /\ r.p0 # r.s => IsPos(IF r.side = "yes" THEN f_yes ELSE f_no)
                /\ (~IsPos(f_yes) /\ ~IsPos(f_no)) =>
                       r.p0 = r.s /\ r.side = "yes" /\ r.edge0 = 0

\* one list with a market priced at its estimate (side yes, edge 0), and a
\* market sized on the No side with a positive edge
C29_Witness ==
    /\ pc = "done"
    /\ \E i, j \in 1..Len(recs) :
           /\ recs[i].p0 = recs[i].s
           /\ recs[i].side = "yes" /\ recs[i].edge0 = 0
           /\ recs[j].side = "no" /\ recs[j].edge0 > 0
           /\ IsPos(_kelly_no(recs[j].p0, recs[j].s))

====
